---------------------------- MODULE Spec2Model ----------------------------
(***************************************************************************)
(* A model of src/core/qgstracer.cpp: the tracer graph (makeGraph), the    *)
(* point locators (point2vertex, point2edge), the temporary splice         *)
(* (joinVertexToGraph, pointInGraph) and its revert (resetGraph), the      *)
(* Dijkstra search (shortestPath) and the QgsTracer session around them.   *)
(*                                                                         *)
(* Geometry.  A QgsPoint is a pair <<x, y>> of integers and a              *)
(* QgsLineString a sequence of points.  All linework of the model has      *)
(* axis-parallel segments, for which the length of a segment and the test  *)
(* "the closest point of the segment is the point itself" are exact        *)
(* integer computations.  Integer coordinates differ by at least 1, so     *)
(* the epsilon (1e-6) comparisons of the source are equalities here.       *)
(*                                                                         *)
(* Indices.  QVector<V> and QVector<E> are functions on 0 .. n-1, so that  *)
(* vertex and edge indices are the source's; -1 is "not found".  A         *)
(* vertex's QVector<int> edges and the coordinates of a line are           *)
(* sequences (positions 1 .. n hold the source's 0 .. n-1).                *)
(***************************************************************************)
EXTENDS Integers, Sequences, FiniteSets, TLC

(***************************************************************************)
(* Small helpers on sequences and 0-based vectors.  A value that is used   *)
(* more than once is passed as an argument rather than named in a LET,     *)
(* which keeps the expressions TLC instruments small.                      *)
(***************************************************************************)
Abs(n) == IF n < 0 THEN -n ELSE n

Min2(a, b) == IF a < b THEN a ELSE b

Max2(a, b) == IF a < b THEN b ELSE a

Reverse(s) == [i \in 1..Len(s) |-> s[Len(s) + 1 - i]]

RECURSIVE SumSeq(_)
SumSeq(s) == IF s = <<>> THEN 0 ELSE Head(s) + SumSeq(Tail(s))

RECURSIVE Flatten(_)
Flatten(ss) == IF ss = <<>> THEN <<>> ELSE Head(ss) \o Flatten(Tail(ss))

\* the least element of a set of indices, -1 for the empty set: the first
\* hit of a loop that returns at its first match
FirstOf(S) == IF S = {} THEN -1 ELSE CHOOSE i \in S : \A k \in S : i <= k

\* QVector::count()
Count(vec) == Cardinality(DOMAIN vec)

EmptyVec == [i \in {} |-> 0]

\* QVector::append( x )
VecAppend(vec, x) == [i \in 0..Count(vec) |-> IF i < Count(vec) THEN vec[i] ELSE x]

\* QVector::resize( n ), only ever used to shrink
VecResize(vec, n) == [i \in 0..(n - 1) |-> vec[i]]

\* QVector::indexOf( x ) as a position of the sequence, 0 when absent
IndexOf(s, x) == Max2(0, FirstOf({i \in DOMAIN s : s[i] = x}))

\* all the orders in which the elements of a finite set can be visited
Orders(S) ==
  {f \in [1..Cardinality(S) -> S] : \A i, j \in 1..Cardinality(S) : i # j => f[i] # f[j]}

(***************************************************************************)
(* Geometry: the operations of QgsPoint / QgsLineString the tracer calls.  *)
(***************************************************************************)
Pt(x, y) == <<x, y>>

\* the length of one axis-parallel segment
SegLen(a, b) == Abs(a[1] - b[1]) + Abs(a[2] - b[2])

\* QgsLineString::length(), the weight of an edge
Length(c) == SumSeq([i \in 1..(Len(c) - 1) |-> SegLen(c[i], c[i + 1])])

\* closestSegment's distance to the segment a-b is 0: the point lies on it
\* (a degenerate segment is its first point)
OnSegment(p, a, b) ==
  IF a = b THEN p = a
  ELSE IF a[2] = b[2]
       THEN p[2] = a[2] /\ Min2(a[1], b[1]) <= p[1] /\ p[1] <= Max2(a[1], b[1])
       ELSE p[1] = a[1] /\ Min2(a[2], b[2]) <= p[2] /\ p[2] <= Max2(a[2], b[2])

\* QgsLineString::closestSegment( pt, ..., vertexId ): the first segment at
\* distance 0, as the index (0-based) of the line vertex after the point;
\* -1 when the distance to the line is not 0
ClosestSegment(c, p) == FirstOf({j \in 1..(Len(c) - 1) : OnSegment(p, c[j], c[j + 1])})

\* splitAt( pt, vertexAfter, out1, out2 ): the two coordinate runs, which
\* share the point
SplitAt(c, p, after) ==
  [out1 |-> SubSeq(c, 1, after) \o <<p>>,
   out2 |-> <<p>> \o SubSeq(c, after + 1, Len(c))]

\* a line cut down to one point is cleared
ClearedIfPoint(c) == IF Len(c) = 1 THEN <<>> ELSE c

\* QgsLineString::deleteVertex( QgsVertexId( 0, 0, idx ) ): an index outside
\* the line deletes nothing
DeleteVertex(c, idx) ==
  IF idx >= Len(c) \/ idx < 0 THEN c
  ELSE ClearedIfPoint(SubSeq(c, 1, idx) \o SubSeq(c, idx + 2, Len(c)))

\* AppendLine with a fault: the end point is stored twice
AppendLineKeepingBoth(c, line) == c \o line

\* QgsLineString::append( line ): the end point is not stored twice
AppendLine(c, line) ==
  IF Len(c) > 0 /\ Len(line) > 0 /\ c[Len(c)] = line[1]
  THEN SubSeq(c, 1, Len(c) - 1) \o line
  ELSE c \o line

\* std::numeric_limits<double>::max(), the distance of a vertex not reached
DBL_MAX == 1000000

(***************************************************************************)
(* QgsTracerGraph                                                          *)
(***************************************************************************)
NewGraph == [v |-> EmptyVec, e |-> EmptyVec, inactiveEdges |-> {}, joinedVertices |-> 0]

\* E::otherVertex( v0 )
OtherVertex(edge, v0) == IF edge.v1 = v0 THEN edge.v2 ELSE edge.v1

\* E::weight()
Weight(edge) == Length(edge.coords)

\* point2vertex inside makeGraph: QHash<QgsPoint, int>, exact equality
HashLookup(g, p) == FirstOf({i \in DOMAIN g.v : g.v[i].pt = p})

\* GetOrAddVertexAt with a fault: the hash is not consulted, every end of a
\* line makes a vertex
GetOrAddVertexAtAlwaysAdd(g, p, found) ==
  [g |-> [g EXCEPT !.v = VecAppend(@, [pt |-> p, edges |-> <<>>])],
   v |-> Count(g.v)]

\* get or add the vertex of a line's end, given what the hash holds for it
GetOrAddVertexAt(g, p, found) ==
  IF found # -1
  THEN [g |-> g, v |-> found]
  ELSE [g |-> [g EXCEPT !.v = VecAppend(@, [pt |-> p, edges |-> <<>>])],
        v |-> Count(g.v)]

GetOrAddVertex(g, p) == GetOrAddVertexAt(g, p, HashLookup(g, p))

\* "link edge to vertices"
LinkEdge(g, v1, v2, eIdx) ==
  [g EXCEPT !.v = [[@ EXCEPT ![v1].edges = Append(@, eIdx)]
                      EXCEPT ![v2].edges = Append(@, eIdx)]]

\* AddEdge with a fault: the edge keeps the two ends of the line only
AddEdgeEndsOnly(g, v1, v2, line) ==
  LinkEdge([g EXCEPT !.e = VecAppend(@, [v1 |-> v1, v2 |-> v2,
                                         coords |-> <<line[1], line[Len(line)]>>])],
           v1, v2, Count(g.e))

\* "add edge", then link it
AddEdge(g, v1, v2, line) ==
  LinkEdge([g EXCEPT !.e = VecAppend(@, [v1 |-> v1, v2 |-> v2, coords |-> line])],
           v1, v2, Count(g.e))

\* one pass of makeGraph's loop, for the vertex found for the line's start
AddLineBetween(v1, r2, line) == AddEdge(r2.g, v1, r2.v, line)

AddLineFrom(r1, line) == AddLineBetween(r1.v, GetOrAddVertex(r1.g, line[Len(line)]), line)

AddLine(g, line) == AddLineFrom(GetOrAddVertex(g, line[1]), line)

RECURSIVE MakeGraphFrom(_, _)
MakeGraphFrom(g, lines) ==
  IF lines = <<>> THEN g ELSE MakeGraphFrom(AddLine(g, Head(lines)), Tail(lines))

\* makeGraph( edges )
MakeGraph(lines) == MakeGraphFrom(NewGraph, lines)

(***************************************************************************)
(* Spatial locator                                                         *)
(***************************************************************************)
\* point2vertex( g, pt, epsilon ): the first vertex at the point
Point2Vertex(g, p) == FirstOf({i \in DOMAIN g.v : g.v[i].pt = p})

\* ScannedEdges with a fault: inactive edges are looked at as well
ScannedEdgesAll(g) == DOMAIN g.e

\* the edges point2edge looks at: inactive ones are skipped
ScannedEdges(g) == {i \in DOMAIN g.e : i \notin g.inactiveEdges}

\* what point2edge returns for the edge it stops at
EdgeHit(g, p, eIdx) ==
  IF eIdx = -1 THEN [e |-> -1, after |-> -1]
  ELSE [e |-> eIdx, after |-> ClosestSegment(g.e[eIdx].coords, p)]

\* point2edge( g, pt, lineVertexAfter, epsilon ): the first scanned edge whose
\* line is at distance 0 of the point, with the line vertex after the point
Point2Edge(g, p) ==
  EdgeHit(g, p, FirstOf({i \in ScannedEdges(g) : ClosestSegment(g.e[i].coords, p) # -1}))

(***************************************************************************)
(* Graph splicer                                                           *)
(***************************************************************************)
\* QVector::replace( indexOf( eIdx ), newIdx ) on a vertex's edges
ReplaceEdge(edges, eIdx, newIdx) == [edges EXCEPT ![IndexOf(edges, eIdx)] = newIdx]

\* Reconnect with a fault: the edge list of v2 is left as it was
ReconnectFirstEndOnly(vs, e, eIdx, e1Idx, e2Idx) ==
  [vs EXCEPT ![e.v1].edges = ReplaceEdge(@, eIdx, e1Idx)]

\* "update edge connectivity of existing vertices": v1 first, then v2
Reconnect(vs, e, eIdx, e1Idx, e2Idx) ==
  [[vs EXCEPT ![e.v1].edges = ReplaceEdge(@, eIdx, e1Idx)]
      EXCEPT ![e.v2].edges = ReplaceEdge(@, eIdx, e2Idx)]

\* SpliceEdge with a fault: the edge spliced is not made inactive
SpliceEdgeKeptActive(g, p, eIdx, e, out, vIdx, e1Idx) ==
  [g |-> [v |-> VecAppend(Reconnect(g.v, e, eIdx, e1Idx, e1Idx + 1),
                          [pt |-> p, edges |-> <<e1Idx, e1Idx + 1>>]),
          e |-> VecAppend(VecAppend(g.e, [v1 |-> e.v1, v2 |-> vIdx, coords |-> out.out1]),
                          [v1 |-> vIdx, v2 |-> e.v2, coords |-> out.out2]),
          inactiveEdges |-> g.inactiveEdges,
          joinedVertices |-> g.joinedVertices + 1],
   v |-> vIdx]

\* the body of joinVertexToGraph for the edge found: e is the edge, out its
\* two coordinate runs, vIdx and e1Idx the indices of the new vertex and of
\* the first new edge
SpliceEdge(g, p, eIdx, e, out, vIdx, e1Idx) ==
  [g |-> [v |-> VecAppend(Reconnect(g.v, e, eIdx, e1Idx, e1Idx + 1),
                          [pt |-> p, edges |-> <<e1Idx, e1Idx + 1>>]),
          e |-> VecAppend(VecAppend(g.e, [v1 |-> e.v1, v2 |-> vIdx, coords |-> out.out1]),
                          [v1 |-> vIdx, v2 |-> e.v2, coords |-> out.out2]),
          inactiveEdges |-> g.inactiveEdges \cup {eIdx},
          joinedVertices |-> g.joinedVertices + 1],
   v |-> vIdx]

\* joinVertexToGraph after its point2edge call
JoinAt(g, p, hit) ==
  IF hit.e = -1 THEN [g |-> g, v |-> -1]
  ELSE SpliceEdge(g, p, hit.e, g.e[hit.e], SplitAt(g.e[hit.e].coords, p, hit.after),
                  Count(g.v), Count(g.e))

\* joinVertexToGraph( g, pt ): the graph after the splice and the index of
\* the new vertex, or the graph as it was and -1
JoinVertexToGraph(g, p) == JoinAt(g, p, Point2Edge(g, p))

\* PointInGraphAt with a fault: the vertex found is not used
PointInGraphAtAlwaysJoin(g, p, v) == JoinVertexToGraph(g, p)

\* pointInGraph after its point2vertex call
PointInGraphAt(g, p, v) == IF v # -1 THEN [g |-> g, v |-> v] ELSE JoinVertexToGraph(g, p)

\* pointInGraph( g, pt ): an existing vertex, or else a splice
PointInGraph(g, p) == PointInGraphAt(g, p, Point2Vertex(g, p))

\* the inner loops of resetGraph: drop the edge indices beyond the edges
DropTruncated(edges, n) == SelectSeq(edges, LAMBDA x : x < n)

\* RestoreInto with a fault: the edge is restored into its first end only
RestoreIntoFirstOnly(vs, e, eIdx, n) ==
  [[vs EXCEPT ![e.v1].edges = Append(DropTruncated(@, n), eIdx)]
      EXCEPT ![e.v2].edges = DropTruncated(@, n)]

\* the two halves of the body of resetGraph's loop: v1, then v2
RestoreInto(vs, e, eIdx, n) ==
  [[vs EXCEPT ![e.v1].edges = Append(DropTruncated(@, n), eIdx)]
      EXCEPT ![e.v2].edges = Append(DropTruncated(@, n), eIdx)]

\* one pass of resetGraph's loop over the inactive edges
RestoreEdge(g, eIdx) ==
  IF eIdx >= Count(g.e) THEN g
  ELSE [g EXCEPT !.v = RestoreInto(@, g.e[eIdx], eIdx, Count(g.e))]

RECURSIVE RestoreEdges(_, _)
RestoreEdges(g, order) ==
  IF order = <<>> THEN g ELSE RestoreEdges(RestoreEdge(g, Head(order)), Tail(order))

\* "remove extra vertices and edges"
Truncate(g) ==
  [g EXCEPT !.v = VecResize(@, Count(g.v) - g.joinedVertices),
            !.e = VecResize(@, Count(g.e) - g.joinedVertices * 2),
            !.joinedVertices = 0]

\* resetGraph( g ); order is the order in which the QSet<int> of inactive
\* edges is iterated, which Qt leaves unspecified
ResetGraph(g, order) == [RestoreEdges(Truncate(g), order) EXCEPT !.inactiveEdges = {}]


(***************************************************************************)
(* Shortest-path solver.  The priority queue is libstdc++'s binary heap,   *)
(* which fixes the order in which items of equal distance are popped.      *)
(***************************************************************************)
\* struct comp: orders queue items by distance
Comp(a, b) == a[2] > b[2]

\* std::__push_heap: move the hole up while the parent compares after value
RECURSIVE SiftUp(_, _, _, _)
SiftUp(h, hole, top, value) ==
  IF hole > top /\ Comp(h[(hole - 1) \div 2], value)
  THEN SiftUp([h EXCEPT ![hole] = h[(hole - 1) \div 2]], (hole - 1) \div 2, top, value)
  ELSE [h EXCEPT ![hole] = value]

\* priority_queue::push: push_back, then push_heap
HeapPush(h, item) == SiftUp(VecAppend(h, item), Count(h), 0, item)

\* the child std::__adjust_heap moves up: the second one unless it compares
\* after the first
ChildToLift(h, c2) == IF Comp(h[c2], h[c2 - 1]) THEN c2 - 1 ELSE c2

LiftChild(h, hole, c) == [h |-> [h EXCEPT ![hole] = h[c]], hole |-> c]

\* std::__adjust_heap's loop and the step after it: the hole moves down to
\* a leaf
RECURSIVE SiftDown(_, _, _)
SiftDown(h, hole, len) ==
  IF hole < (len - 1) \div 2
  THEN SiftDown([h EXCEPT ![hole] = h[ChildToLift(h, 2 * (hole + 1))]],
                ChildToLift(h, 2 * (hole + 1)), len)
  ELSE IF len % 2 = 0 /\ hole = (len - 2) \div 2
       THEN LiftChild(h, hole, 2 * (hole + 1) - 1)
       ELSE [h |-> h, hole |-> hole]

\* std::__adjust_heap's final __push_heap of the value taken from the end
Refill(r, value, n) == VecResize(SiftUp(r.h, r.hole, 0, value), n)

\* priority_queue::pop: pop_heap, then pop_back
HeapPop(h) ==
  IF Count(h) <= 1 THEN EmptyVec
  ELSE Refill(SiftDown(h, 0, Count(h) - 1), h[Count(h) - 1], Count(h) - 1)

\* RelaxTo with a fault: a distance found is kept, however long, once the
\* vertex has one
RelaxToFirstFound(st, v, d, eIdx) ==
  IF ~st.F[v] /\ st.D[v] = DBL_MAX
  THEN [st EXCEPT !.D[v] = d, !.S[v] = eIdx, !.Q = HeapPush(@, <<v, d>>)]
  ELSE st

\* "found a shorter way to the vertex" v, at distance d over edge eIdx
RelaxTo(st, v, d, eIdx) ==
  IF ~st.F[v] /\ d < st.D[v]
  THEN [st EXCEPT !.D[v] = d, !.S[v] = eIdx, !.Q = HeapPush(@, <<v, d>>)]
  ELSE st

\* the body of the loop over the edges of u
RelaxEdge(g, u, st, eIdx) ==
  RelaxTo(st, OtherVertex(g.e[eIdx], u), st.D[u] + Weight(g.e[eIdx]), eIdx)

\* the loop over the edges of u, from position i of its edge list on
RECURSIVE Relax(_, _, _, _)
Relax(g, u, i, st) ==
  IF i > Len(g.v[u].edges) THEN st
  ELSE Relax(g, u, i + 1, RelaxEdge(g, u, st, g.v[u].edges[i]))

\* the vertex u is processed; finalized lists the vertices processed
Finalize(st, u) == [st EXCEPT !.F[u] = TRUE, !.finalized = Append(@, u)]

\* the item at the top of the queue is taken; pops counts the passes of
\* the loop
Pop(st) == [st EXCEPT !.u = st.Q[0][1], !.Q = HeapPop(@), !.pops = @ + 1]

\* the while loop of shortestPath over the queue
RECURSIVE Search(_, _, _)
Search(g, v2, st) ==
  IF Count(st.Q) = 0 THEN st
  ELSE IF st.Q[0][1] = v2 THEN Pop(st)
  ELSE IF st.F[st.Q[0][1]] THEN Search(g, v2, Pop(st))
  ELSE Search(g, v2, Finalize(Relax(g, st.Q[0][1], 1, Pop(st)), st.Q[0][1]))

\* an edge's coordinates, starting at the point of u
Oriented(coords, pt) == IF coords[1] # pt THEN Reverse(coords) ELSE coords

\* "chop last one": the index passed is the number of points
Chopped(points) == IF points # <<>> THEN DeleteVertex(points, Len(points)) ELSE points

\* WalkBack with a fault: the walk stops after the first edge
WalkBackOneEdge(g, S, u, path, points) ==
  IF S[u] = -1 THEN [path |-> path, points |-> points]
  ELSE [path |-> Append(path, S[u]),
        points |-> AppendLine(Chopped(points), Oriented(g.e[S[u]].coords, g.v[u].pt))]

\* the walk back from the target along the edges of S: the edges met
\* (target first) and the coordinates gathered
RECURSIVE WalkBack(_, _, _, _, _)
WalkBack(g, S, u, path, points) ==
  IF S[u] = -1 THEN [path |-> path, points |-> points]
  ELSE WalkBack(g, S, OtherVertex(g.e[S[u]], u), Append(path, S[u]),
                AppendLine(Chopped(points), Oriented(g.e[S[u]].coords, g.v[u].pt)))

\* the state of the search after its loop
SearchResult(g, v1, v2) ==
  Search(g, v2,
         [Q |-> HeapPush(EmptyVec, <<v1, 0>>),
          D |-> [i \in DOMAIN g.v |-> IF i = v1 THEN 0 ELSE DBL_MAX],
          F |-> [i \in DOMAIN g.v |-> FALSE],
          S |-> [i \in DOMAIN g.v |-> -1],
          u |-> -1, finalized |-> <<>>, pops |-> 0])

\* both lists are built target first and reversed at the end
Reversed(w) == [path |-> Reverse(w.path), points |-> Reverse(w.points)]

\* PathOf with a fault: the walk back starts at the last vertex taken from
\* the queue, whether it is the target or not
PathOfLastPopped(g, v2, st) == Reversed(WalkBack(g, st.S, st.u, <<>>, <<>>))

\* shortestPath after its loop
PathOf(g, v2, st) ==
  IF st.u # v2 THEN [path |-> <<>>, points |-> <<>>]
  ELSE Reversed(WalkBack(g, st.S, st.u, <<>>, <<>>))

\* shortestPath( g, v1, v2 ) with its local path: the chain of edges from v1
\* to v2 and the coordinates returned; both empty when there is no path
ShortestPathFull(g, v1, v2) ==
  IF v1 = -1 \/ v2 = -1 THEN [path |-> <<>>, points |-> <<>>]
  ELSE PathOf(g, v2, SearchResult(g, v1, v2))

\* shortestPath( g, v1, v2 )
ShortestPath(g, v1, v2) == ShortestPathFull(g, v1, v2).points


(***************************************************************************)
(* The upstream feature source and the bounds of the model                 *)
(***************************************************************************)
\* the most features a layer holds
MaxFeatures == 2

\* the layers the session can be given
Layers == {1}

Line(xs) == [i \in 1..Len(xs) |-> Pt(xs[i], 0)]

\* what a layer can hold: a feature without geometry, single lines with
\* interior points, and a feature of two separate lines
NullFeature == [hasGeometry |-> FALSE, lines |-> <<>>]

LineFeature(xs) == [hasGeometry |-> TRUE, lines |-> <<Line(xs)>>]

TwoLineFeature(xs, ys) == [hasGeometry |-> TRUE, lines |-> <<Line(xs), Line(ys)>>]

FeatureCatalogue ==
  {NullFeature,
   LineFeature(<<0, 2>>),
   LineFeature(<<2, 4>>),
   TwoLineFeature(<<0, 1>>, <<3, 4>>)}

FeatureLists == UNION {[1..n -> FeatureCatalogue] : n \in 0..MaxFeatures}

\* the points a caller asks about: ends and interior points of the lines,
\* and one point off every line
QueryPoints == {Pt(x, 0) : x \in 0..3} \cup {Pt(1, 1)}

\* the offsets a caller sets
Offsets == {0, 1}

\* the feature caps a session is given: none (0), and up to the number of
\* features a layer holds
Caps == 0..MaxFeatures

\* the layer lists a caller passes
LayerLists == {<<>>} \cup {<<l>> : l \in Layers}

\* a QgsRectangle, by its range of x; the lines of the model lie within its
\* range of y
Extent(x0, x1) == [xMinimum |-> x0, xMaximum |-> x1]

\* QgsRectangle(), which is empty
NullExtent == Extent(0, 0)

\* the extents a caller sets
Extents == {NullExtent, Extent(4, 5)}

\* the destination reference systems a caller sets; the provider serves the
\* coordinates in the system asked for, which are the coordinates of store
CrsList == {"EPSG:4326", "EPSG:3857"}

\* no render context, and the copy setRenderContext makes of the one passed
RenderContexts == {"null", "copy"}

\* the offset parameters a caller sets: segments, join style, miter limit
OffsetParameterList == {<<8, 2, 2>>, <<4, 1, 5>>}

(***************************************************************************)
(* QgsTracer                                                               *)
(***************************************************************************)
VARIABLES
  store,             \* the features of each layer, as its provider serves them
  mLayers,           \* the layers traced, in order
  mMaxFeatureCount,  \* the feature cap, 0 for none
  mOffset,           \* the offset applied to a path found
  mExtent,           \* the rectangle the features are taken from, or empty
  mCRS,              \* the reference system the features are asked in
  mRenderContext,    \* the render context the features are filtered by
  mOffsetParameters, \* mOffsetSegments, mOffsetJoinStyle, mOffsetMiterLimit
  mGraph,            \* the cached graph, or NoGraph
  call               \* the last call since the configuration changed: its
                     \* arguments, the graph it worked on and what it returned

vars ==
  <<store, mLayers, mMaxFeatureCount, mOffset, mExtent, mCRS, mRenderContext,
    mOffsetParameters, mGraph, call>>

\* the settings setLayers, setOffset and findShortestPath leave alone
Settings == <<mExtent, mCRS, mRenderContext, mOffsetParameters>>

NoGraph == [none |-> TRUE]

\* no call has returned since the configuration last changed
NoCall == [op |-> "none"]

\* QgsRectangle::isEmpty()
IsEmpty(r) == r.xMaximum <= r.xMinimum

\* request.setFilterRect( mExtent ) unless mExtent is empty: the features
\* whose bounding box meets the rectangle
InExtent(f) ==
  \/ IsEmpty(mExtent)
  \/ /\ f.hasGeometry
     /\ \E k \in DOMAIN f.lines : \E i \in DOMAIN f.lines[k] : f.lines[k][i][1] <= mExtent.xMaximum
     /\ \E k \in DOMAIN f.lines : \E i \in DOMAIN f.lines[k] : f.lines[k][i][1] >= mExtent.xMinimum

\* the features the iterators of the layers deliver, layer after layer
PulledFeatures ==
  Flatten([i \in 1..Len(mLayers) |-> SelectSeq(store[mLayers[i]], InExtent)])

\* the feature loop of initGraph: the lines extracted, or the cap reached
RECURSIVE PullFeatures(_, _, _)
PullFeatures(fs, featuresCounted, mpl) ==
  IF fs = <<>> THEN [ok |-> TRUE, mpl |-> mpl]
  ELSE IF ~Head(fs).hasGeometry THEN PullFeatures(Tail(fs), featuresCounted, mpl)
  ELSE IF mMaxFeatureCount # 0 /\ featuresCounted + 1 >= mMaxFeatureCount
       THEN [ok |-> FALSE, mpl |-> mpl \o Head(fs).lines]
       ELSE PullFeatures(Tail(fs), featuresCounted + 1, mpl \o Head(fs).lines)

\* the end of initGraph: the graph made of the lines, unless the cap was hit
GraphOf(pulled) == IF pulled.ok THEN MakeGraph(pulled.mpl) ELSE NoGraph

\* QgsTracer::init() and initGraph(): the graph after the call
InitGraph ==
  IF mGraph # NoGraph THEN mGraph ELSE GraphOf(PullFeatures(PulledFeatures, 0, <<>>))

\* QgsPoint::distance, squared
Dist2(p, q) == (p[1] - q[1]) * (p[1] - q[1]) + (p[2] - q[2]) * (p[2] - q[2])

\* sqrt(p) - sqrt(q) < k, in integers, with m = p + q - k * k
SqrtDiffLess(p, q, k, m) ==
  IF k > 0
  THEN p <= q \/ m < 0 \/ m * m < 4 * p * q
  ELSE p < q /\ m > 0 /\ m * m > 4 * p * q

\* sqrt(a) + sqrt(b) < sqrt(c) + sqrt(d), in integers
SqrtSumLess(a, b, c, d) ==
  SqrtDiffLess(4 * a * b, 4 * c * d, (c + d) - (a + b),
               4 * a * b + 4 * c * d - ((c + d) - (a + b)) * ((c + d) - (a + b)))

\* the offset collaborator's curve for the linework of the model, which
\* runs along the x axis: the line moved sideways by the offset
OffsetCurve(points, offset) ==
  [i \in DOMAIN points |-> Pt(points[i][1], points[i][2] + offset)]

\* "sometimes the resulting curve is reversed": diffReversed < diffNormal
Directed(ls2, p1, p2) ==
  IF Len(ls2) >= 2
     /\ SqrtSumLess(Dist2(ls2[1], p2), Dist2(ls2[Len(ls2)], p1),
                    Dist2(ls2[1], p1), Dist2(ls2[Len(ls2)], p2))
  THEN Reverse(ls2)
  ELSE ls2

\* the offset block of findShortestPath
ApplyOffset(points, p1, p2) ==
  IF points # <<>> /\ mOffset # 0
  THEN Directed(OffsetCurve(points, mOffset), p1, p2)
  ELSE points

\* the two pointInGraph calls of findShortestPath: the graph after them and
\* the vertices found
Resolved(r1, r2) == [g |-> r2.g, v1 |-> r1.v, v2 |-> r2.v]

ResolveSecond(r1, p2) == Resolved(r1, PointInGraph(r1.g, p2))

Resolve(g, p1, p2) == ResolveSecond(PointInGraph(g, p1), p2)

\* Found with a fault: the error code does not go by the points
FoundAlwaysNone(points) == [path |-> points, error |-> "ErrNone", solver |-> TRUE]

\* the end of findShortestPath: the error code goes by the points
Found(points) ==
  [path |-> points, error |-> IF points = <<>> THEN "ErrNoPath" ELSE "ErrNone",
   solver |-> TRUE]

\* Answer with a fault: the second vertex is not checked before the search
AnswerSkippingPoint2(r, p1, p2) ==
  IF r.v1 = -1 THEN [path |-> <<>>, error |-> "ErrPoint1", solver |-> FALSE]
  ELSE [path |-> ApplyOffset(ShortestPath(r.g, r.v1, r.v2), p1, p2),
        error |-> IF ShortestPath(r.g, r.v1, r.v2) = <<>> THEN "ErrNoPath" ELSE "ErrNone",
        solver |-> TRUE]

\* what findShortestPath returns once the points are resolved to r, and
\* whether it ran the search
Answer(r, p1, p2) ==
  IF r.v1 = -1 THEN [path |-> <<>>, error |-> "ErrPoint1", solver |-> FALSE]
  ELSE IF r.v2 = -1 THEN [path |-> <<>>, error |-> "ErrPoint2", solver |-> FALSE]
  ELSE Found(ApplyOffset(ShortestPath(r.g, r.v1, r.v2), p1, p2))

\* the graph findShortestPath leaves: reverted after the search, and as the
\* two pointInGraph calls left it when it returned before the search
GraphsLeft(r) ==
  IF r.v1 = -1 \/ r.v2 = -1 THEN {r.g}
  ELSE {ResetGraph(r.g, order) : order \in Orders(r.g.inactiveEdges)}

\* the record of a findShortestPath call: the points asked, whether the
\* session was Empty when it was made, the graph init() left (entry), the
\* graph and the vertices after the two pointInGraph calls, which the
\* search is given, and what the call returned
Returned(p1, p2, g, r, a) ==
  [op |-> "findShortestPath", p1 |-> p1, p2 |-> p2, empty |-> mGraph = NoGraph,
   entry |-> g, g |-> r.g, v1 |-> r.v1, v2 |-> r.v2,
   path |-> a.path, error |-> a.error, solver |-> a.solver]

\* findShortestPath on the graph g that init() left, resolved to r
FindResolved(g, p1, p2, r) ==
  /\ mGraph' \in GraphsLeft(r)
  /\ call' = Returned(p1, p2, g, r, Answer(r, p1, p2))

FindOn(g, p1, p2) ==
  IF g = NoGraph
  THEN /\ mGraph' = NoGraph
       /\ call' = Returned(p1, p2, NoGraph, [g |-> NoGraph, v1 |-> -1, v2 |-> -1],
                           [path |-> <<>>, error |-> "ErrTooManyFeatures", solver |-> FALSE])
  ELSE FindResolved(g, p1, p2, Resolve(g, p1, p2))

\* QgsTracer::findShortestPath( p1, p2, &error )
FindShortestPath(p1, p2) ==
  /\ FindOn(InitGraph, p1, p2)
  /\ UNCHANGED <<store, mLayers, mMaxFeatureCount, mOffset, Settings>>

\* QgsTracer::invalidateGraph()
InvalidateGraph == mGraph' = NoGraph

\* the record of a call of a setter: the value passed and whether it was
\* the value the session held
WasSet(op, value, held) == [op |-> op, value |-> value, same |-> value = held]

\* QgsTracer::setLayers( layers ), which returns at once when the layers
\* are the ones traced
SetLayers(layers) ==
  /\ IF mLayers = layers
     THEN UNCHANGED <<mLayers, mGraph>>
     ELSE mLayers' = layers /\ InvalidateGraph
  /\ call' = WasSet("setLayers", layers, mLayers)
  /\ UNCHANGED <<store, mMaxFeatureCount, mOffset, Settings>>

\* QgsTracer::setOffset( offset )
SetOffset(offset) ==
  /\ mOffset' = offset
  /\ call' = WasSet("setOffset", offset, mOffset)
  /\ UNCHANGED <<store, mLayers, mMaxFeatureCount, mGraph, Settings>>

\* the settings of a new session
DefaultSettings ==
  /\ mExtent = NullExtent
  /\ mCRS = "EPSG:4326"
  /\ mRenderContext = "null"
  /\ mOffsetParameters = <<8, 2, 2>>

\* QgsTracer::QgsTracer(), for any content of the layers and any cap
Init ==
  /\ store \in [Layers -> FeatureLists]
  /\ mLayers = <<>>
  /\ mMaxFeatureCount \in Caps
  /\ mOffset = 0
  /\ DefaultSettings
  /\ mGraph = NoGraph
  /\ call = NoCall

Next ==
  \/ \E layers \in LayerLists : SetLayers(layers)
  \/ \E offset \in Offsets : SetOffset(offset)
  \/ \E p1, p2 \in QueryPoints : FindShortestPath(p1, p2)

Spec == Init /\ [][Next]_vars

(***************************************************************************)
(* The functions of the file applied to a graph directly, as initGraph and *)
(* findShortestPath apply them to the session's graph: mGraph is the       *)
(* graph, call the last function applied; the session's configuration is   *)
(* idle.  The linework is two-dimensional here.                            *)
(***************************************************************************)
\* the most lines makeGraph is given
MaxLines == 2

\* the most splices a graph holds before it is reset
MaxJoined == 1

\* the lines makeGraph is given: a plain segment, a longer line with
\* interior points between the same ends, a segment that continues the
\* first, a line apart from all that ends where it starts, and a line of
\* no length where the first three meet
LineCatalogue ==
  {<<Pt(0, 0), Pt(2, 0)>>,
   <<Pt(0, 0), Pt(0, 1), Pt(2, 1), Pt(2, 0)>>,
   <<Pt(2, 0), Pt(4, 0)>>,
   <<Pt(6, 0), Pt(8, 0), Pt(6, 0)>>,
   <<Pt(2, 0), Pt(2, 0)>>}

LineLists == UNION {[1..n -> LineCatalogue] : n \in 0..MaxLines}

\* the points pointInGraph is given: an end of a line, points inside the
\* lines, and a point off every line
ProbePoints == {Pt(0, 0), Pt(1, 0), Pt(1, 1), Pt(7, 0), Pt(9, 9)}

\* the record of a function applied; clean is the graph as it last held no
\* splice
Made(lines, g) == [op |-> "makeGraph", mpl |-> lines, clean |-> g]

Joined(p, r) ==
  [op |-> "pointInGraph", p |-> p, v |-> r.v, before |-> mGraph, clean |-> call.clean]

Reverted(g) == [op |-> "resetGraph", before |-> mGraph, was |-> call.clean, clean |-> g]

Solved(v1, v2, r, st) ==
  [op |-> "shortestPath", v1 |-> v1, v2 |-> v2, path |-> r.path, points |-> r.points,
   S |-> st.S, finalized |-> st.finalized, pops |-> st.pops, clean |-> call.clean]

Idle == UNCHANGED <<store, mLayers, mMaxFeatureCount, mOffset, Settings>>

MakeGraphDone(lines, g) ==
  /\ mGraph' = g
  /\ call' = Made(lines, g)

\* mGraph.reset( makeGraph( mpl ) )
MakeGraphStep(lines) ==
  /\ mGraph = NoGraph
  /\ MakeGraphDone(lines, MakeGraph(lines))
  /\ Idle

PointInGraphDone(p, r) ==
  /\ r.g.joinedVertices <= MaxJoined
  /\ mGraph' = r.g
  /\ call' = Joined(p, r)

\* pointInGraph( *mGraph, pt )
PointInGraphStep(p) ==
  /\ mGraph # NoGraph
  /\ PointInGraphDone(p, PointInGraph(mGraph, p))
  /\ Idle

ResetGraphDone(g) ==
  /\ mGraph' = g
  /\ call' = Reverted(g)

\* resetGraph( *mGraph )
ResetGraphStep ==
  /\ mGraph # NoGraph
  /\ \E order \in Orders(mGraph.inactiveEdges) : ResetGraphDone(ResetGraph(mGraph, order))
  /\ Idle

\* shortestPath( *mGraph, v1, v2 )
ShortestPathStep(v1, v2) ==
  /\ mGraph # NoGraph
  /\ v1 \in DOMAIN mGraph.v
  /\ v2 \in DOMAIN mGraph.v
  /\ call' = Solved(v1, v2, ShortestPathFull(mGraph, v1, v2), SearchResult(mGraph, v1, v2))
  /\ UNCHANGED mGraph
  /\ Idle

\* the vertex indices a graph of the model can hold
VertexIndices == 0..(2 * MaxLines + MaxJoined - 1)

InitGraphOnly ==
  /\ store = [l \in Layers |-> <<>>]
  /\ mLayers = <<>>
  /\ mMaxFeatureCount = 0
  /\ mOffset = 0
  /\ DefaultSettings
  /\ mGraph = NoGraph
  /\ call = NoCall

NextGraph ==
  \/ \E lines \in LineLists : MakeGraphStep(lines)
  \/ \E p \in ProbePoints : PointInGraphStep(p)
  \/ ResetGraphStep
  \/ \E v1, v2 \in VertexIndices : ShortestPathStep(v1, v2)

SpecGraph == InitGraphOnly /\ [][NextGraph]_vars

(***************************************************************************)
(* The whole session: every setter, the notifications of the layers, and   *)
(* both queries, on layers that start without features and change under    *)
(* the session.                                                            *)
(***************************************************************************)
\* the features an edit of a layer adds: a line with two interior points
\* asked about, and a feature of two separate lines
EditCatalogue == {LineFeature(<<0, 3>>), TwoLineFeature(<<0, 1>>, <<3, 4>>)}

\* the points asked about: inside the long line and at an end of a short
\* one, inside the long line only, and off every line
SessionPoints == {Pt(1, 0), Pt(2, 0), Pt(1, 1)}

\* QgsTracer::setExtent( extent ), which returns at once when the extent is
\* the one held
SetExtent(extent) ==
  /\ IF mExtent = extent
     THEN UNCHANGED <<mExtent, mGraph>>
     ELSE mExtent' = extent /\ InvalidateGraph
  /\ call' = WasSet("setExtent", extent, mExtent)
  /\ UNCHANGED <<store, mLayers, mMaxFeatureCount, mOffset, mCRS, mRenderContext,
                 mOffsetParameters>>

\* setDestinationCrs with a fault: the graph is kept
SetDestinationCrsKeepingGraph(crs) ==
  /\ mCRS' = crs
  /\ UNCHANGED mGraph
  /\ call' = WasSet("setDestinationCrs", crs, mCRS)
  /\ UNCHANGED <<store, mLayers, mMaxFeatureCount, mOffset, mExtent, mRenderContext,
                 mOffsetParameters>>

\* QgsTracer::setDestinationCrs( crs, context )
SetDestinationCrs(crs) ==
  /\ mCRS' = crs
  /\ InvalidateGraph
  /\ call' = WasSet("setDestinationCrs", crs, mCRS)
  /\ UNCHANGED <<store, mLayers, mMaxFeatureCount, mOffset, mExtent, mRenderContext,
                 mOffsetParameters>>

\* QgsTracer::setRenderContext( renderContext ): a copy of the context is
\* held from then on
SetRenderContext ==
  /\ mRenderContext' = "copy"
  /\ InvalidateGraph
  /\ call' = WasSet("setRenderContext", "copy", mRenderContext)
  /\ UNCHANGED <<store, mLayers, mMaxFeatureCount, mOffset, mExtent, mCRS,
                 mOffsetParameters>>

\* QgsTracer::setOffsetParameters( quadSegments, joinStyle, miterLimit )
SetOffsetParameters(params) ==
  /\ mOffsetParameters' = params
  /\ call' = WasSet("setOffsetParameters", params, mOffsetParameters)
  /\ UNCHANGED <<store, mLayers, mMaxFeatureCount, mOffset, mExtent, mCRS,
                 mRenderContext, mGraph>>

\* setLayers connected the signals of the layer to the session
Connected(l) == \E i \in DOMAIN mLayers : mLayers[i] = l

\* the record of a change of a layer: the slot its signal is connected to,
\* and whether the session traced the layer, so that the slot ran
Notified(slot, l) == [op |-> slot, layer |-> l, connected |-> Connected(l)]

\* Emit with a fault: the slot leaves the graph
EmitUnheard(slot, l) ==
  /\ UNCHANGED mGraph
  /\ call' = Notified(slot, l)
  /\ UNCHANGED <<mMaxFeatureCount, mOffset, Settings>>

\* a signal of layer l, and the slot run if the signal is connected to it;
\* every slot but onLayerDestroyed is invalidateGraph() alone
Emit(slot, l) ==
  /\ IF Connected(l) THEN InvalidateGraph ELSE UNCHANGED mGraph
  /\ call' = Notified(slot, l)
  /\ UNCHANGED <<mMaxFeatureCount, mOffset, Settings>>

\* a feature is added to layer l: QgsTracer::onFeatureAdded( fid )
FeatureAdded(l, f) ==
  /\ Len(store[l]) < MaxFeatures
  /\ store' = [store EXCEPT ![l] = Append(@, f)]
  /\ Emit("onFeatureAdded", l)
  /\ UNCHANGED mLayers

\* feature i of layer l is deleted: QgsTracer::onFeatureDeleted( fid )
FeatureDeleted(l, i) ==
  /\ i \in DOMAIN store[l]
  /\ store' = [store EXCEPT ![l] = SubSeq(@, 1, i - 1) \o SubSeq(@, i + 1, Len(@))]
  /\ Emit("onFeatureDeleted", l)
  /\ UNCHANGED mLayers

\* feature i of layer l is given the geometry of f:
\* QgsTracer::onGeometryChanged( fid, geom )
GeometryChanged(l, i, f) ==
  /\ i \in DOMAIN store[l]
  /\ store[l][i] # f
  /\ store' = [store EXCEPT ![l][i] = f]
  /\ Emit("onGeometryChanged", l)
  /\ UNCHANGED mLayers

\* an attribute of a feature of layer l changes, which the geometries do not
\* show: QgsTracer::onAttributeValueChanged( fid, idx, value )
AttributeValueChanged(l) ==
  /\ store[l] # <<>>
  /\ UNCHANGED store
  /\ Emit("onAttributeValueChanged", l)
  /\ UNCHANGED mLayers

\* the data of layer l are reloaded, whatever they are now:
\* QgsTracer::onDataChanged()
DataChanged(l, fs) ==
  /\ store' = [store EXCEPT ![l] = fs]
  /\ Emit("onDataChanged", l)
  /\ UNCHANGED mLayers

\* the style of layer l changes: QgsTracer::onStyleChanged()
StyleChanged(l) ==
  /\ UNCHANGED store
  /\ Emit("onStyleChanged", l)
  /\ UNCHANGED mLayers

\* layer l is destroyed, and a layer without features takes its place for
\* later calls of setLayers: QgsTracer::onLayerDestroyed( obj )
LayerDestroyed(l) ==
  /\ store' = [store EXCEPT ![l] = <<>>]
  /\ IF Connected(l)
     THEN mLayers' = SelectSeq(mLayers, LAMBDA x : x # l)
     ELSE UNCHANGED mLayers
  /\ Emit("onLayerDestroyed", l)

\* Snapped with a fault: the edges are not looked at
SnappedAtVertexOnly(pt, g) ==
  [op |-> "isPointSnapped", pt |-> pt, empty |-> mGraph = NoGraph, before |-> mGraph,
   entry |-> g, result |-> g # NoGraph /\ Point2Vertex(g, pt) # -1]

\* the record of an isPointSnapped call: the point asked, whether the
\* session was Empty when it was made, the graph it held then (before), the
\* graph init() left (entry), and what the call returned
Snapped(pt, g) ==
  [op |-> "isPointSnapped", pt |-> pt, empty |-> mGraph = NoGraph, before |-> mGraph,
   entry |-> g,
   result |-> g # NoGraph /\ (Point2Vertex(g, pt) # -1 \/ Point2Edge(g, pt).e # -1)]

IsPointSnappedOn(pt, g) ==
  /\ mGraph' = g
  /\ call' = Snapped(pt, g)

\* QgsTracer::isPointSnapped( pt )
IsPointSnapped(pt) ==
  /\ IsPointSnappedOn(pt, InitGraph)
  /\ UNCHANGED <<store, mLayers, mMaxFeatureCount, mOffset, Settings>>

\* the lists of features a reload of a layer leaves
EditLists == UNION {[1..n -> EditCatalogue] : n \in 0..1}

NextSession ==
  \/ \E layers \in LayerLists : SetLayers(layers)
  \/ \E extent \in Extents : SetExtent(extent)
  \/ \E crs \in CrsList : SetDestinationCrs(crs)
  \/ SetRenderContext
  \/ \E offset \in Offsets : SetOffset(offset)
  \/ \E params \in OffsetParameterList : SetOffsetParameters(params)
  \/ \E l \in Layers, f \in EditCatalogue : FeatureAdded(l, f)
  \/ \E l \in Layers, i \in 1..MaxFeatures : FeatureDeleted(l, i)
  \/ \E l \in Layers, i \in 1..MaxFeatures, f \in EditCatalogue : GeometryChanged(l, i, f)
  \/ \E l \in Layers : AttributeValueChanged(l)
  \/ \E l \in Layers, fs \in EditLists : DataChanged(l, fs)
  \/ \E l \in Layers : StyleChanged(l)
  \/ \E l \in Layers : LayerDestroyed(l)
  \/ \E p1, p2 \in SessionPoints : FindShortestPath(p1, p2)
  \/ \E pt \in SessionPoints : IsPointSnapped(pt)

SpecSession == InitGraphOnly /\ [][NextSession]_vars

(***************************************************************************)
(* One epoch of a session: the layers do not change, and query follows     *)
(* query on the graph built by the first.                                  *)
(***************************************************************************)
\* what the layer holds: a line with three interior points asked about,
\* and a line that continues it
EpochCatalogue == {LineFeature(<<0, 4>>), LineFeature(<<4, 6>>)}

EpochLists == UNION {[1..n -> EpochCatalogue] : n \in 0..MaxFeatures}

\* the points asked about: three inside the long line, and one off every
\* line
EpochPoints == {Pt(1, 0), Pt(2, 0), Pt(3, 0), Pt(1, 1)}

\* QgsTracer::QgsTracer(), for any content of the layers, without a cap
InitEpoch ==
  /\ store \in [Layers -> EpochLists]
  /\ mLayers = <<>>
  /\ mMaxFeatureCount = 0
  /\ mOffset = 0
  /\ DefaultSettings
  /\ mGraph = NoGraph
  /\ call = NoCall

NextEpoch ==
  \/ \E layers \in LayerLists : SetLayers(layers)
  \/ \E p1, p2 \in EpochPoints : FindShortestPath(p1, p2)

SpecEpoch == InitEpoch /\ [][NextEpoch]_vars

(***************************************************************************)
(* Properties of the session (checked under Spec)                          *)
(***************************************************************************)
\* the elements of a sequence
Range(s) == {s[i] : i \in DOMAIN s}

\* how often x occurs in s
Occurrences(s, x) == Cardinality({i \in DOMAIN s : s[i] = x})

\* the last call was a findShortestPath
Queried == call.op = "findShortestPath"

\* the graph a build of the current layers makes
FreshGraph == MakeGraph(PullFeatures(PulledFeatures, 0, <<>>).mpl)

\* the point is at a vertex of the graph, or on the line of an active edge
OnGraph(g, p) ==
  \/ \E i \in DOMAIN g.v : g.v[i].pt = p
  \/ \E i \in DOMAIN g.e :
       /\ i \notin g.inactiveEdges
       /\ \E j \in 1..(Len(g.e[i].coords) - 1) :
            OnSegment(p, g.e[i].coords[j], g.e[i].coords[j + 1])

\* the vertices one step from a set of vertices over the adjacency lists,
\* with the set itself
Nbrs(g, S) ==
  S \cup UNION {{OtherVertex(g.e[g.v[u].edges[i]], u) : i \in DOMAIN g.v[u].edges} : u \in S}

RECURSIVE ReachFrom(_, _, _)
ReachFrom(g, S, T) == IF T = S THEN S ELSE ReachFrom(g, T, Nbrs(g, T))

\* v2 can be reached from v1 over the adjacency lists
Reachable(g, v1, v2) == v2 \in ReachFrom(g, {}, {v1})

\* C1: after a findShortestPath call on a built session returns, whatever
\* its outcome, the cached graph holds no splice: the joined-vertex counter
\* is 0, no edge is inactive, and it has as many vertices and edges as the
\* freshly built graph.
C1_GraphRevertedAfterQuery ==
  (Queried /\ mGraph # NoGraph) =>
    /\ mGraph.joinedVertices = 0
    /\ mGraph.inactiveEdges = {}
    /\ Count(mGraph.v) = Count(FreshGraph.v)
    /\ Count(mGraph.e) = Count(FreshGraph.e)

\* C3: findShortestPath( p, p ) for a point that resolves to a vertex
\* returns ErrNone, never ErrNoPath.
C3_SamePointIsNone ==
  (Queried /\ call.p1 = call.p2 /\ call.v1 # -1) => call.error = "ErrNone"

\* C4: two findShortestPath calls in a row with the same points on a built
\* graph, nothing changed in between, return the same coordinates and the
\* same error code.
C4_RepeatedQuerySameResult ==
  [][(/\ Queried
      /\ call.entry # NoGraph
      /\ call'.op = "findShortestPath"
      /\ call'.p1 = call.p1
      /\ call'.p2 = call.p2)
     => (call'.path = call.path /\ call'.error = call.error)]_vars

\* C5: on a built graph, a first point that is neither at a vertex nor on
\* an active edge gives an empty path and ErrPoint1 (whatever the second
\* point); a first point on the graph and a second one off it give an
\* empty path and ErrPoint2; the search is not run in either case.
C5_UnresolvedPointReported ==
  (Queried /\ call.entry # NoGraph) =>
    /\ ~OnGraph(call.entry, call.p1)
         => (call.path = <<>> /\ call.error = "ErrPoint1" /\ ~call.solver)
    /\ (OnGraph(call.entry, call.p1) /\ ~OnGraph(call.entry, call.p2))
         => (call.path = <<>> /\ call.error = "ErrPoint2" /\ ~call.solver)

\* a call whose first point was spliced into an edge and whose second
\* point is off the graph returned ErrPoint2
C5_Witness ==
  /\ Queried
  /\ call.entry # NoGraph
  /\ OnGraph(call.entry, call.p1)
  /\ ~OnGraph(call.entry, call.p2)
  /\ call.g.joinedVertices > call.entry.joinedVertices
  /\ call.error = "ErrPoint2"

\* C6: when both points resolve to vertices and the second vertex cannot
\* be reached from the first over the adjacency lists of the graph, the
\* search runs and findShortestPath returns an empty path and ErrNoPath.
C6_UnreachableIsNoPath ==
  (Queried /\ call.v1 # -1 /\ call.v2 # -1 /\ ~Reachable(call.g, call.v1, call.v2))
    => (call.path = <<>> /\ call.error = "ErrNoPath" /\ call.solver)

\* a call between vertices of two lines that do not touch, the first of
\* which has a neighbour to search
C6_Witness ==
  /\ Queried
  /\ call.v1 # -1
  /\ call.v2 # -1
  /\ ~Reachable(call.g, call.v1, call.v2)
  /\ call.g.v[call.v1].edges # <<>>
  /\ call.error = "ErrNoPath"

\* C8: the coordinates returned are empty whenever the error code is
\* ErrTooManyFeatures, ErrPoint1, ErrPoint2 or ErrNoPath, and non-empty
\* whenever it is ErrNone.
C8_ErrorAndResultAgree ==
  Queried =>
    /\ call.error \in {"ErrTooManyFeatures", "ErrPoint1", "ErrPoint2", "ErrNoPath", "ErrNone"}
    /\ call.error # "ErrNone" => call.path = <<>>
    /\ call.error = "ErrNone" => call.path # <<>>

\* every error code has been returned: here ErrNone, with an offset path
C8_Witness ==
  /\ Queried
  /\ call.error = "ErrNone"
  /\ mOffset # 0
  /\ Len(call.path) >= 2

\* C9: with a non-zero cap, a build from the Empty state aborts exactly
\* when the number of features pulled exceeds the cap; the session then
\* stays Empty and the call returns an empty path and ErrTooManyFeatures.
C9_AbortsOnlyAboveCap ==
  (Queried /\ call.empty /\ mMaxFeatureCount # 0) =>
    /\ call.error = "ErrTooManyFeatures" <=> Len(PulledFeatures) > mMaxFeatureCount
    /\ call.error = "ErrTooManyFeatures" => (mGraph = NoGraph /\ call.path = <<>>)

(***************************************************************************)
(* Properties of the graph functions (checked under SpecGraph)             *)
(***************************************************************************)
\* the last function applied was a resetGraph that reverted exactly one
\* splice, made into a graph that held none
RevertedOneSplice == call.op = "resetGraph" /\ call.before.joinedVertices = 1

SameCounts(g, h) == Count(g.v) = Count(h.v) /\ Count(g.e) = Count(h.e)

\* two edge lists hold the same edge indices the same number of times
SameBag(s, t) ==
  /\ Len(s) = Len(t)
  /\ \A x \in Range(s) \cup Range(t) : Occurrences(s, x) = Occurrences(t, x)

\* the edge the one splice replaced
SplicedEdges == call.before.inactiveEdges

\* C2 as stated: a splice of a point strictly inside an active edge
\* followed by resetGraph leaves the vertex count, the edge count and every
\* vertex's edge list, compared as a sequence, as they were before the
\* splice.
C2_AdjacencyRestoredInOrder ==
  RevertedOneSplice =>
    /\ SameCounts(mGraph, call.was)
    /\ \A i \in DOMAIN mGraph.v : mGraph.v[i].edges = call.was.v[i].edges

\* C2 as amended: a splice of a point strictly inside an active edge of a
\* graph that holds no splice, followed by resetGraph, leaves the vertex
\* count, the edge count and the edges themselves as they were, and every
\* vertex's edge list with the same edge indices as before; the list of a
\* vertex the spliced edge does not end at is the same sequence, the list
\* of a vertex it ends at has the edge's index moved to its end.
C2_AdjacencyRestoredAsBag ==
  RevertedOneSplice =>
    /\ SameCounts(mGraph, call.was)
    /\ mGraph.e = call.was.e
    /\ \A i \in DOMAIN mGraph.v :
         /\ mGraph.v[i].pt = call.was.v[i].pt
         /\ SameBag(mGraph.v[i].edges, call.was.v[i].edges)
         /\ \A x \in SplicedEdges :
              IF x \in Range(call.was.v[i].edges)
              THEN /\ mGraph.v[i].edges[Len(mGraph.v[i].edges)] = x
                   /\ SelectSeq(mGraph.v[i].edges, LAMBDA y : y # x)
                        = SelectSeq(call.was.v[i].edges, LAMBDA y : y # x)
              ELSE mGraph.v[i].edges = call.was.v[i].edges

\* a reset after one splice, of an edge that was not the last of the edge
\* list of one of its ends
C2_Witness ==
  /\ RevertedOneSplice
  /\ \E i \in DOMAIN call.was.v : \E x \in SplicedEdges :
       /\ x \in Range(call.was.v[i].edges)
       /\ call.was.v[i].edges[Len(call.was.v[i].edges)] # x

\* the last function applied was a search between two different vertices,
\* the second of which can be reached from the first
SolvedReachable ==
  /\ call.op = "shortestPath"
  /\ call.v1 # call.v2
  /\ Reachable(mGraph, call.v1, call.v2)

\* the vertex a chain of edges leads to from u, each edge taken from the
\* edge list of the vertex it leaves; -2 when an edge is not in that list
RECURSIVE WalkEnd(_, _, _)
WalkEnd(g, chain, u) ==
  IF chain = <<>> THEN u
  ELSE IF u = -2 \/ Head(chain) \notin Range(g.v[u].edges) THEN -2
  ELSE WalkEnd(g, Tail(chain), OtherVertex(g.e[Head(chain)], u))

ChainWeight(g, chain) == SumSeq([i \in DOMAIN chain |-> Weight(g.e[chain[i]])])

MinOf(S) == CHOOSE x \in S : \A y \in S : x <= y

\* the ways into v: a vertex u and an edge of u's list that leads to v
ArcsInto(g, v) ==
  {a \in (DOMAIN g.v) \X (DOMAIN g.e) :
     a[2] \in Range(g.v[a[1]].edges) /\ OtherVertex(g.e[a[2]], a[1]) = v}

\* one round of Bellman-Ford
RelaxAll(g, D) ==
  [v \in DOMAIN g.v |->
     MinOf({D[v]} \cup {D[a[1]] + Weight(g.e[a[2]]) : a \in ArcsInto(g, v)})]

RECURSIVE Distances(_, _, _)
Distances(g, D, n) == IF n = 0 THEN D ELSE Distances(g, RelaxAll(g, D), n - 1)

\* the least total weight of a walk from v1 to v2
MinDist(g, v1, v2) ==
  Distances(g, [v \in DOMAIN g.v |-> IF v = v1 THEN 0 ELSE DBL_MAX], Count(g.v))[v2]

\* C7: for two different vertices, the second reachable from the first,
\* the chain of edges shortestPath selects is a walk from the first to the
\* second over edges of the adjacency lists, and its total weight is the
\* least of all such walks.
C7_ShortestPathIsOptimal ==
  SolvedReachable =>
    /\ WalkEnd(mGraph, call.path, call.v1) = call.v2
    /\ ChainWeight(mGraph, call.path) = MinDist(mGraph, call.v1, call.v2)

\* a search from a vertex with an edge straight to the target that is
\* longer than the walk selected: the target was queued at a greater
\* distance too
C7_Witness ==
  /\ SolvedReachable
  /\ \E x \in Range(mGraph.v[call.v1].edges) :
       /\ OtherVertex(mGraph.e[x], call.v1) = call.v2
       /\ Weight(mGraph.e[x]) > ChainWeight(mGraph, call.path)
  /\ mGraph.v[call.v1].edges[1] \notin Range(call.path)

\* the grid points of a line
PointsOn(line) ==
  {p \in (0..9) \X (0..2) :
     \E j \in 1..(Len(line) - 1) : OnSegment(p, line[j], line[j + 1])}

\* the lines given to makeGraph are pairwise disjoint (they share no point,
\* so no end point either)
MadeOfDisjointLines ==
  /\ call.op = "makeGraph"
  /\ \A i, j \in DOMAIN call.mpl :
       i # j => PointsOn(call.mpl[i]) \cap PointsOn(call.mpl[j]) = {}

\* C10 as stated: N pairwise disjoint polylines make a graph of as many
\* vertices as the polylines have points, and N edges.
C10_VertexPerPoint ==
  MadeOfDisjointLines =>
    /\ Count(mGraph.v) = SumSeq([i \in DOMAIN call.mpl |-> Len(call.mpl[i])])
    /\ Count(mGraph.e) = Len(call.mpl)

\* the ends of a line: two, or one when it ends where it starts
Ends(line) == IF line[1] = line[Len(line)] THEN 1 ELSE 2

\* C10 as amended: N pairwise disjoint polylines make a graph with one
\* vertex per distinct end point of a polyline (two for each polyline, one
\* for a polyline that ends where it starts; the points inside a polyline
\* make no vertex), and N edges.
C10_VertexPerEndPoint ==
  MadeOfDisjointLines =>
    /\ Count(mGraph.v) = SumSeq([i \in DOMAIN call.mpl |-> Ends(call.mpl[i])])
    /\ Count(mGraph.e) = Len(call.mpl)

\* a graph made of two disjoint lines, one of them with interior points
C10_Witness ==
  /\ MadeOfDisjointLines
  /\ Len(call.mpl) = 2
  /\ \E i \in DOMAIN call.mpl : Len(call.mpl[i]) > 2
  /\ Count(mGraph.e) = 2

\* the end points of the lines given to makeGraph
EndPoints(lines) == {lines[k][1] : k \in DOMAIN lines} \cup {lines[k][Len(lines[k])] : k \in DOMAIN lines}

GraphSetters == {"setLayers", "setExtent", "setDestinationCrs", "setRenderContext"}

\* the setters of what is applied to a path found
OffsetSetters == {"setOffset", "setOffsetParameters"}

\* C12: every call of setLayers, setExtent, setDestinationCrs and
\* setRenderContext leaves the session without a graph, also when the value
\* passed is the one held; setOffset and setOffsetParameters leave the graph
\* as it was.
C12_SettersAlwaysInvalidate ==
  [][/\ call'.op \in GraphSetters => mGraph' = NoGraph
     /\ call'.op \in OffsetSetters => mGraph' = mGraph]_vars

\* C12, as the code has it: setDestinationCrs and setRenderContext always
\* leave the session without a graph; setLayers and setExtent do so when the
\* value passed differs from the one held, and leave the graph as it was
\* when it is the one held; setOffset and setOffsetParameters leave the
\* graph as it was.
C12_SettersInvalidateUnlessSame ==
  [][/\ call'.op \in {"setDestinationCrs", "setRenderContext"} => mGraph' = NoGraph
     /\ call'.op \in {"setLayers", "setExtent"} =>
          IF call'.same THEN mGraph' = mGraph ELSE mGraph' = NoGraph
     /\ call'.op \in OffsetSetters => mGraph' = mGraph]_vars

\* setExtent was given the extent held by a session with a graph of some
\* edges, and the graph is still there
C12_Witness ==
  /\ call.op = "setExtent"
  /\ call.same
  /\ mGraph # NoGraph
  /\ Count(mGraph.e) > 0

(***************************************************************************)
(* Properties of the notifications                                         *)
(***************************************************************************)
\* the slots of the session
Slots ==
  {"onFeatureAdded", "onFeatureDeleted", "onGeometryChanged", "onAttributeValueChanged",
   "onDataChanged", "onStyleChanged", "onLayerDestroyed"}

\* the calls that ask the graph
Asked == call.op \in {"findShortestPath", "isPointSnapped"}

\* the lines the layers traced hold now, within the extent
SourceLines == Flatten([k \in 1..Len(PulledFeatures) |-> PulledFeatures[k].lines])

\* the lines a graph was made of: its edges but the two each splice added
MadeOf(g) ==
  [k \in 1..(Count(g.e) - 2 * g.joinedVertices) |-> g.e[k - 1].coords]

\* C13: a notification of a layer traced leaves the session without a graph;
\* a query answers from a graph made of the lines the source holds when the
\* query is made, which it builds when the session holds none, and which
\* is the very graph the session holds when it holds one.
C13_NoStaleGraph ==
  /\ [](call.op \in Slots /\ call.connected => mGraph = NoGraph)
  /\ [](Asked /\ call.entry # NoGraph => MadeOf(call.entry) = SourceLines)
  /\ [][call'.op \in {"findShortestPath", "isPointSnapped"} =>
          /\ call'.empty = (mGraph = NoGraph)
          /\ mGraph # NoGraph => call'.entry = mGraph]_vars

\* a query found the session without a graph and built one of the two
\* features the layer had come to hold, and the next is answered from it
C13_Witness ==
  /\ call.op = "findShortestPath"
  /\ ~call.empty
  /\ Len(store[1]) = 2
  /\ store[1][1] # store[1][2]
  /\ Count(call.entry.e) >= 3

(***************************************************************************)
(* Properties of isPointSnapped                                            *)
(***************************************************************************)
\* C14: on a session that holds a graph, isPointSnapped( pt ) returns true
\* exactly when pt is at a vertex or on the line of an active edge, which is
\* exactly when pointInGraph, as findShortestPath calls it, resolves pt to
\* a vertex index; and the call leaves the graph as it was.
C14_SnappedIffResolved ==
  call.op = "isPointSnapped" /\ ~call.empty =>
    /\ call.result = OnGraph(call.before, call.pt)
    /\ call.result = (PointInGraph(call.before, call.pt).v # -1)
    /\ mGraph = call.before

\* isPointSnapped on a session with a graph said yes for a point inside an
\* edge, and no vertex was added for it
C14_Witness ==
  /\ call.op = "isPointSnapped"
  /\ ~call.empty
  /\ call.result
  /\ Point2Vertex(call.before, call.pt) = -1
  /\ Point2Vertex(mGraph, call.pt) = -1

(***************************************************************************)
(* Properties of the graph a session holds                                 *)
(***************************************************************************)
\* the active edges that end at vertex u
ActiveAt(g, u) ==
  {i \in DOMAIN g.e : i \notin g.inactiveEdges /\ (g.e[i].v1 = u \/ g.e[i].v2 = u)}

\* the ends of every edge are vertices, and the edge list of every vertex
\* holds the active edges that end at it and nothing else
WellFormed(g) ==
  /\ \A i \in DOMAIN g.e : g.e[i].v1 \in DOMAIN g.v /\ g.e[i].v2 \in DOMAIN g.v
  /\ \A u \in DOMAIN g.v : Range(g.v[u].edges) = ActiveAt(g, u)

\* the graphs of a state: the one cached and, after a findShortestPath
\* call, the one init() left and the one the search was given or the call
\* returned early with
GraphsHeld ==
  {g \in {mGraph} \cup (IF call.op = "findShortestPath" THEN {call.entry, call.g} ELSE {}) :
     g # NoGraph}

\* C15: in every graph the session comes to hold (as built, with one or two
\* splices, as left by a query that returned early, and as reverted), the
\* ends of every edge are indices of vertices and the edge list of every
\* vertex holds exactly the active edges that end at it.
C15_AdjacencyIsActiveIncidence == \A g \in GraphsHeld : WellFormed(g)

\* a search was given a graph with two splices, and a graph with a splice
\* left by a query that returned early is cached
C15_Witness ==
  /\ call.op = "findShortestPath"
  /\ call.solver
  /\ call.g.joinedVertices >= 2
  /\ call.entry.joinedVertices >= 1

(***************************************************************************)
(* Properties of pointInGraph                                              *)
(***************************************************************************)
\* the last function applied was pointInGraph, and it spliced the point in
Spliced == call.op = "pointInGraph" /\ mGraph # call.before

\* the places of edge e in an edge list
Places(edges, e) == {i \in DOMAIN edges : edges[i] = e}

\* the list now is the list then with e replaced by the edges news, in
\* their order, at the places of e
Replaced(then, now, e, news) ==
  /\ Len(now) = Len(then)
  /\ \A i \in DOMAIN then : then[i] # e => now[i] = then[i]
  /\ Cardinality(Places(then, e)) = Len(news)
  /\ \A i, j \in Places(then, e) : i < j => now[i] = news[1] /\ now[j] = news[2]
  /\ \A i \in Places(then, e) : Len(news) = 1 => now[i] = news[1]

\* the edge lists of the ends a and b of edge e once e is split into the
\* edges k and k + 1
EndsReconnected(then, now, e, a, b, k) ==
  IF a = b THEN Replaced(then[a].edges, now[a].edges, e, <<k, k + 1>>)
  ELSE /\ Replaced(then[a].edges, now[a].edges, e, <<k>>)
       /\ Replaced(then[b].edges, now[b].edges, e, <<k + 1>>)

\* graph g is graph b with its active edge e split at point p by a new
\* vertex n, the halves being the new edges k and k + 1
SplitOf(b, g, e, p, n, k) ==
  /\ e \in DOMAIN b.e /\ e \notin b.inactiveEdges
  /\ n = Count(b.v) /\ Count(g.v) = n + 1
  /\ k = Count(b.e) /\ Count(g.e) = k + 2
  /\ g.v[n] = [pt |-> p, edges |-> <<k, k + 1>>]
  /\ g.e[k].v1 = b.e[e].v1 /\ g.e[k].v2 = n
  /\ g.e[k + 1].v1 = n /\ g.e[k + 1].v2 = b.e[e].v2
  /\ EndsReconnected(b.v, g.v, e, b.e[e].v1, b.e[e].v2, k)
  /\ g.inactiveEdges = b.inactiveEdges \cup {e}
  /\ g.joinedVertices = b.joinedVertices + 1
  /\ \A i \in DOMAIN b.e : g.e[i] = b.e[i]
  /\ \A u \in DOMAIN b.v : g.v[u].pt = b.v[u].pt
  /\ \A u \in DOMAIN b.v : u \notin {b.e[e].v1, b.e[e].v2} => g.v[u] = b.v[u]

\* C16: when pointInGraph splits an active edge e = (a, b) at a point, the
\* graph has one more vertex n, with the index of the former vertex count,
\* and two more edges (a, n) and (n, b), with the indices of the former edge
\* count and the next; the edge list of n is those two; in the list of a
\* the index of e is replaced by (a, n) and in that of b by (n, b), also
\* when a = b; e is inactive and still among the edges; the counter of
\* joined vertices is one more; every other vertex and edge is as it was.
C16_SplitAddsVertexAndHalves ==
  Spliced =>
    /\ Cardinality(mGraph.inactiveEdges \ call.before.inactiveEdges) = 1
    /\ \A e \in mGraph.inactiveEdges \ call.before.inactiveEdges :
         SplitOf(call.before, mGraph, e, call.p, call.v, Count(call.before.e))

\* a line that ends where it starts was split, in a graph of two lines
C16_Witness ==
  /\ Spliced
  /\ Count(call.before.e) = 2
  /\ \E e \in mGraph.inactiveEdges : mGraph.e[e].v1 = mGraph.e[e].v2

\* C17: pointInGraph changes the graph only when it splits an edge: given
\* the point of a vertex it returns the index of that vertex, given a point
\* that is neither at a vertex nor on an active edge it returns -1, and
\* in both cases the graph is as it was.
C17_NoSplitNoChange ==
  call.op = "pointInGraph" =>
    /\ (\E u \in DOMAIN call.before.v : call.before.v[u].pt = call.p) =>
         /\ call.v \in DOMAIN call.before.v
         /\ call.before.v[call.v].pt = call.p
         /\ mGraph = call.before
    /\ ~OnGraph(call.before, call.p) => call.v = -1 /\ mGraph = call.before

\* pointInGraph was given the point of a vertex an earlier splice had added
\* and returned that vertex
C17_Witness ==
  /\ call.op = "pointInGraph"
  /\ call.before.joinedVertices = 1
  /\ call.v = Count(call.before.v) - 1
  /\ mGraph = call.before

(***************************************************************************)
(* Properties of the coordinates of a path                                 *)
(***************************************************************************)
\* the coordinates of an edge as travelled from its end u
RunFrom(e, u) == IF e.v1 = u THEN e.coords ELSE Reverse(e.coords)

\* the coordinates of a chain of edges travelled from vertex u, the point
\* at which two edges meet taken once
RECURSIVE RunsFrom(_, _, _)
RunsFrom(g, chain, u) ==
  IF chain = <<>> THEN <<>>
  ELSE IF Len(chain) = 1 THEN RunFrom(g.e[chain[1]], u)
  ELSE SubSeq(RunFrom(g.e[chain[1]], u), 1, Len(g.e[chain[1]].coords) - 1)
         \o RunsFrom(g, Tail(chain), OtherVertex(g.e[chain[1]], u))

\* C18: a path shortestPath returns from v1 to v2 that is not empty starts
\* with the point of v1 and ends with the point of v2; it is the coordinates
\* of the edges chosen, from the source to the target, each in the
\* direction of travel, and the point at which two edges meet is there
\* once.
C18_PathIsOrientedRuns ==
  call.op = "shortestPath" /\ call.points # <<>> =>
    /\ call.points[1] = mGraph.v[call.v1].pt
    /\ call.points[Len(call.points)] = mGraph.v[call.v2].pt
    /\ call.path # <<>>
    /\ WalkEnd(mGraph, call.path, call.v1) = call.v2
    /\ call.points = RunsFrom(mGraph, call.path, call.v1)
    /\ Len(call.points) =
         SumSeq([i \in DOMAIN call.path |-> Len(mGraph.e[call.path[i]].coords)])
           - (Len(call.path) - 1)

\* a path of two edges was returned, the first travelled against the order
\* of its coordinates, one of them with points between its ends
C18_Witness ==
  /\ call.op = "shortestPath"
  /\ Len(call.path) = 2
  /\ Len(call.points) >= 5
  /\ mGraph.e[call.path[1]].v1 # call.v1

(***************************************************************************)
(* Properties of two splices into one edge                                 *)
(***************************************************************************)
\* point p is on the line of edge e
OnEdge(g, e, p) ==
  \E j \in 1..(Len(g.e[e].coords) - 1) : OnSegment(p, g.e[e].coords[j], g.e[e].coords[j + 1])

\* point p is on the line of edge e and at neither of its ends
Inside(g, e, p) ==
  /\ OnEdge(g, e, p)
  /\ p # g.v[g.e[e].v1].pt
  /\ p # g.v[g.e[e].v2].pt

\* point p is on no edge but e and at no vertex
OnlyOn(g, e, p) ==
  /\ \A i \in DOMAIN g.e : OnEdge(g, i, p) => i = e
  /\ \A u \in DOMAIN g.v : g.v[u].pt # p

\* the last call was a query for two different points inside edge e of a
\* graph without splices
BothInside(e) ==
  /\ call.op = "findShortestPath"
  /\ call.entry # NoGraph
  /\ call.entry.joinedVertices = 0
  /\ call.p1 # call.p2
  /\ e \in DOMAIN call.entry.e
  /\ Inside(call.entry, e, call.p1)
  /\ Inside(call.entry, e, call.p2)

\* edge h, a half of e, was split at p2 by vertex n into the edges k and
\* k + 1
HalfSplit(g, e, h, p2, n, k) ==
  /\ g.inactiveEdges = {e, h}
  /\ OnEdge(g, h, p2)
  /\ g.e[k].v1 = g.e[h].v1 /\ g.e[k].v2 = n
  /\ g.e[k + 1].v1 = n /\ g.e[k + 1].v2 = g.e[h].v2

\* graph g is graph b with edge e split at p1 and a half of it split at
\* p2, by the vertices n and n + 1, into edges from k on
TwiceSplit(b, g, e, p2, n, k) ==
  /\ Count(g.v) = n + 2
  /\ Count(g.e) = k + 4
  /\ g.joinedVertices = 2
  /\ \E h \in {k, k + 1} : HalfSplit(g, e, h, p2, n + 1, k + 2)

\* graph g is graph b again, edge e in the lists of both its ends
RestoredFrom(b, g, e) ==
  /\ Count(g.v) = Count(b.v)
  /\ g.e = b.e
  /\ g.joinedVertices = 0
  /\ g.inactiveEdges = {}
  /\ e \in Range(g.v[g.e[e].v1].edges)
  /\ e \in Range(g.v[g.e[e].v2].edges)
  /\ \A u \in DOMAIN g.v : Range(g.v[u].edges) = Range(b.v[u].edges)

\* what a query for two points inside edge e did
NestedAndRestored(e) ==
  /\ call.v1 = Count(call.entry.v)
  /\ call.v2 = Count(call.entry.v) + 1
  /\ TwiceSplit(call.entry, call.g, e, call.p2, Count(call.entry.v), Count(call.entry.e))
  /\ RestoredFrom(call.entry, mGraph, e)

\* point2edge returns no inactive edge of any graph the session holds
NoInactiveEdgeFound ==
  \A g \in GraphsHeld : \A p \in SessionPoints : Point2Edge(g, p).e \notin g.inactiveEdges

\* C19: point2edge never returns an inactive edge: when both points of a
\* query are inside the same edge of the graph as built, the second is
\* spliced into one of the halves the first splice made, which gives four
\* new edges and two new vertices, the edge and the half split again both
\* inactive; and the revert puts the edge back into the lists of both its
\* ends and removes the four edges and the two vertices.
C19_SecondSpliceInHalf ==
  /\ NoInactiveEdgeFound
  /\ \A e \in 0..(2 * MaxFeatures - 1) : BothInside(e) => NestedAndRestored(e)

\* C19, for points that are on the one edge only: the same, when neither
\* point is at a vertex or on the line of another edge of the graph.
C19_SecondSpliceInHalfOfOnlyEdge ==
  /\ NoInactiveEdgeFound
  /\ \A e \in 0..(2 * MaxFeatures - 1) :
       BothInside(e) /\ OnlyOn(call.entry, e, call.p1) /\ OnlyOn(call.entry, e, call.p2) =>
         NestedAndRestored(e)

\* both points of a query were inside the one edge they are on, and the
\* graph the search was given holds two splices
C19_Witness ==
  /\ \E e \in 0..(2 * MaxFeatures - 1) :
       BothInside(e) /\ OnlyOn(call.entry, e, call.p1) /\ OnlyOn(call.entry, e, call.p2)
  /\ call.g.joinedVertices = 2
  /\ mGraph.joinedVertices = 0

(***************************************************************************)
(* Properties of the search as a loop                                      *)
(***************************************************************************)
NoRepeats(seq) == \A i, j \in DOMAIN seq : seq[i] = seq[j] => i = j

\* the vertices a chain of edges passes from u on, u first
RECURSIVE Passed(_, _, _)
Passed(g, chain, u) ==
  IF chain = <<>> THEN <<u>>
  ELSE <<u>> \o Passed(g, Tail(chain), OtherVertex(g.e[Head(chain)], u))

\* the walk back was made: the loop ended at the target
WalkedBack == call.op = "shortestPath" /\ (call.path # <<>> \/ call.v1 = call.v2)

\* C20: shortestPath comes to an end on every graph, those with edges of
\* no length, edges from a vertex to itself and several edges between two
\* vertices included: no vertex is processed twice, the loop makes no more
\* passes than there are entries in the edge lists, plus one, and the walk
\* back from the target along the edges of S passes no vertex twice and ends
\* at the source, which has no edge in S.
C20_SearchAndWalkEnd ==
  call.op = "shortestPath" =>
    /\ NoRepeats(call.finalized)
    /\ call.pops <= 1 + 2 * Count(mGraph.e)
    /\ call.S[call.v1] = -1
    /\ WalkedBack =>
         /\ NoRepeats(Passed(mGraph, Reverse(call.path), call.v2))
         /\ WalkEnd(mGraph, Reverse(call.path), call.v2) = call.v1

\* a search processed a vertex that has an edge of no length to itself and
\* walked back over an edge from the target
C20_Witness ==
  /\ WalkedBack
  /\ call.path # <<>>
  /\ \E i \in DOMAIN mGraph.e :
       /\ Weight(mGraph.e[i]) = 0
       /\ mGraph.e[i].v1 = mGraph.e[i].v2
       /\ mGraph.e[i].v1 \in Range(call.finalized)

(***************************************************************************)
(* Properties of the splices over the queries of an epoch                  *)
(***************************************************************************)
\* graph g holds at most two vertices and four edges more than graph f
AtMostTwoSplices(f, g) ==
  /\ g.joinedVertices <= 2
  /\ Count(g.v) <= Count(f.v) + 2
  /\ Count(g.e) <= Count(f.e) + 4

\* graph g has the vertices, the edges and the edge sets of graph f, and
\* holds no splice
AsBuilt(f, g) ==
  /\ Count(g.v) = Count(f.v)
  /\ Count(g.e) = Count(f.e)
  /\ g.joinedVertices = 0
  /\ g.inactiveEdges = {}
  /\ \A u \in DOMAIN g.v : Range(g.v[u].edges) = Range(f.v[u].edges)

\* a query whose points both resolve leaves the graph as built
ResolvedQueryReverts ==
  call.op = "findShortestPath" /\ call.solver => AsBuilt(FreshGraph, mGraph)

\* C21: splices do not pile up over the queries of an epoch, those that
\* returned for an unresolved point included: no graph the session holds
\* has more than two vertices and four edges beyond those it was built
\* with, and a query whose points both resolve leaves the graph with the
\* vertex count, the edge count and the edge sets of the graph as built,
\* the counter of joined vertices at 0 and no edge inactive.
C21_SplicesDoNotPileUp ==
  /\ \A g \in GraphsHeld : AtMostTwoSplices(FreshGraph, g)
  /\ ResolvedQueryReverts

====
